---------------------------- MODULE Spec2Model ----------------------------
(***************************************************************************)
(* Model of the CSVd reader (src/src/csvd.cpp): the std::istream the       *)
(* parser reads from, the cell scanner read_cell, the helpers skip / trim  *)
(* / from_chars, and the row/column state machine of CSVd::read with its   *)
(* two first-row loops read_with_header and read_without_header; and of    *)
(* the writer CSVd::write, with the text it sends to an output stream.     *)
(*                                                                         *)
(* A character is a one-character string.  Two values that are not input   *)
(* characters appear: EOF, the int traits::eof() returned by peek()/get(), *)
(* and CharFF, the char that static_cast<char>(EOF) yields when the        *)
(* result of get() is stored into the cell buffer.                         *)
(***************************************************************************)
EXTENDS Integers, Sequences, FiniteSets, TLC

VARIABLES stream,        \* the std::istream handed to read
          settings,      \* CSVd::settings_
          columns,       \* CSVd::columns_
          pc,            \* the loop of read that is executing
          scan,          \* position within one loop iteration
          header_type,   \* local of read: the resolved header type
          column_index,  \* local of read_with_header / read_without_header
          column, row,   \* locals of read
          buffer,        \* read_cell: the characters stored so far
          is_in_quote,   \* read_cell: the quoted-region flag
          result,        \* what read returned
          stream0,       \* history: the stream as it was handed to read
          cell_start,    \* history: stream position at the last read_cell call
          written,       \* the texts of the output streams write was called on
          table0,        \* history: the table that was written and read again
          reread,        \* the read call is one of a text that write produced
          set_calls      \* history: the number of calls of the separator
                         \* setters, the last call and the last non-empty
                         \* argument of each setter

write_vars == <<written, table0, reread>>

vars == <<stream, settings, columns, pc, scan, header_type, column_index,
          column, row, buffer, is_in_quote, result, stream0, cell_start,
          written, table0, reread, set_calls>>

-----------------------------------------------------------------------------
(* Characters *)

NL == "\n"
SP == " "
QT == "\""
NUL == "NUL"
EOF == "EOF"
CharFF == "0xFF"

Digits == {"0", "1", "2", "3", "4", "5", "6", "7", "8", "9"}

DigitVal == [c \in Digits |->
               CASE c = "0" -> 0 [] c = "1" -> 1 [] c = "2" -> 2
                 [] c = "3" -> 3 [] c = "4" -> 4 [] c = "5" -> 5
                 [] c = "6" -> 6 [] c = "7" -> 7 [] c = "8" -> 8
                 [] c = "9" -> 9]

\* " \a\b\t\n\v\f\r"
\* (BEL, BS and VT name the characters \a, \b and \v)
whitespaces == {" ", "BEL", "BS", "\t", "\n", "VT", "\f", "\r"}

\* static_cast<char>(int): what "*itr = stream.get()" and the char peek
\* parameter of ReadError store when the int is traits::eof()
to_char(c) == IF c = EOF THEN CharFF ELSE c

-----------------------------------------------------------------------------
(* Bounds and program constants *)

\* char buffer[128]
BufferSize == 128

\* capacity of the fixed-size separator / quote arrays of Settings
SepCapacity == 8

\* longest exhaustively enumerated input
MaxLen == 3

-----------------------------------------------------------------------------
(* Settings *)

RECURSIVE Pad(_, _)
Pad(s, n) == IF Len(s) >= n THEN s ELSE Pad(Append(s, NUL), n)

EmptyArray == Pad(<<>>, SepCapacity)

HeaderTypes == {"None", "FirstRow", "Auto"}

DefaultSettings ==
    [header_type      |-> "Auto",
     value_separators |-> Pad(<<",", ";", "\t">>, SepCapacity),
     quotes           |-> Pad(<<QT, "'">>, SepCapacity),
     line_separators  |-> Pad(<<NL>>, SepCapacity),
     auto_quotes      |-> TRUE]

\* mutant of contains: only the first element is compared
contains_first(arr, c) == arr[1] = c

\* std::ranges::contains(array, stream.peek()): every element of the
\* fixed-size array is compared, the '\0' padding included
contains(arr, c) == \E i \in DOMAIN arr : arr[i] = c

RECURSIVE view_len(_, _)
view_len(arr, i) ==
    IF i > Len(arr) THEN Len(arr)
    ELSE IF arr[i] = NUL THEN i - 1
    ELSE view_len(arr, i + 1)

\* CSVd::quotes(): the characters before the first '\0'
quotes(st) == SubSeq(st.quotes, 1, view_len(st.quotes, 1))

\* CSVd::value_separators() and CSVd::line_separators(): likewise
value_separators(st) ==
    SubSeq(st.value_separators, 1, view_len(st.value_separators, 1))

line_separators(st) ==
    SubSeq(st.line_separators, 1, view_len(st.line_separators, 1))

\* mutant of set_separators: an empty argument empties the set
set_separators_also_empty(arr, sep) ==
    [i \in DOMAIN arr |->
        IF i <= Len(sep) THEN sep[i]
        ELSE IF i = Len(sep) + 1 THEN NUL
        ELSE arr[i]]

\* mutant of set_separators: no '\0' is stored behind the copy
set_separators_unterminated(arr, sep) ==
    IF sep = <<>> THEN arr
    ELSE [i \in DOMAIN arr |-> IF i <= Len(sep) THEN sep[i] ELSE arr[i]]

\* the body of set_value_separators / set_line_separators on the array arr:
\* nothing for an empty argument; otherwise the argument is copied up to
\* the size of the array and one '\0' is stored behind it if there is
\* room, the elements after that keeping what they held
set_separators(arr, sep) ==
    IF sep = <<>> THEN arr
    ELSE [i \in DOMAIN arr |->
            IF i <= Len(sep) THEN sep[i]
            ELSE IF i = Len(sep) + 1 THEN NUL
            ELSE arr[i]]

-----------------------------------------------------------------------------
(* std::istream over a character buffer *)

good(s) == ~s.eofbit /\ ~s.failbit /\ ~s.badbit

\* the sentry of an unformatted input function on a stream that is not good
sentry_fail(s) == [s EXCEPT !.failbit = TRUE]

peek(s) ==
    IF good(s)
      THEN IF s.pos <= Len(s.buf)
             THEN [c |-> s.buf[s.pos], s |-> s]
             ELSE [c |-> EOF, s |-> [s EXCEPT !.eofbit = TRUE]]
      ELSE [c |-> EOF, s |-> sentry_fail(s)]

get(s) ==
    IF good(s)
      THEN IF s.pos <= Len(s.buf)
             THEN [c |-> s.buf[s.pos], s |-> [s EXCEPT !.pos = @ + 1]]
             ELSE [c |-> EOF,
                   s |-> [s EXCEPT !.eofbit = TRUE, !.failbit = TRUE]]
      ELSE [c |-> EOF, s |-> sentry_fail(s)]

ignore(s) ==
    IF good(s)
      THEN IF s.pos <= Len(s.buf)
             THEN [s EXCEPT !.pos = @ + 1]
             ELSE [s EXCEPT !.eofbit = TRUE]
      ELSE sentry_fail(s)

-----------------------------------------------------------------------------
(* Helpers *)

RECURSIVE skip(_, _)
skip(s, set) ==
    IF s.eofbit \/ s.badbit THEN s
    ELSE LET p == peek(s) IN
         IF p.c \in set THEN skip(ignore(p.s), set) ELSE p.s

\* mutant of skip_whitespaces: nothing is skipped
skip_nothing(s) == s

skip_whitespaces(s) == skip(s, whitespaces)

RECURSIVE find_first_not_of(_, _, _)
find_first_not_of(str, chars, i) ==
    IF i > Len(str) THEN 0
    ELSE IF str[i] \notin chars THEN i
    ELSE find_first_not_of(str, chars, i + 1)

RECURSIVE find_last_not_of(_, _, _)
find_last_not_of(str, chars, i) ==
    IF i < 1 THEN 0
    ELSE IF str[i] \notin chars THEN i
    ELSE find_last_not_of(str, chars, i - 1)

\* npos is modelled as 0 (indices are 1-based)
trim(str, chars) ==
    LET pos1 == find_first_not_of(str, chars, 1)
        pos2 == find_last_not_of(str, chars, Len(str))
    IN IF pos1 = 0 THEN <<>>
       ELSE IF pos2 = 0 THEN SubSeq(str, pos1, Len(str))
       ELSE SubSeq(str, pos1, pos2)

trim_whitespaces(str) == trim(str, whitespaces)

Range(s) == {s[i] : i \in DOMAIN s}

RECURSIVE digit_run(_, _)
digit_run(str, i) ==
    IF i > Len(str) \/ str[i] \notin Digits THEN 0
    ELSE 1 + digit_run(str, i + 1)

RECURSIVE digits_value(_, _, _)
digits_value(str, i, n) ==
    IF n = 0 THEN 0
    ELSE 10 * digits_value(str, i, n - 1) + DigitVal[str[i + n - 1]]

RECURSIVE strip_zeros(_, _)
strip_zeros(m, f) ==
    IF m = 0 THEN [mant |-> 0, frac |-> 0]
    ELSE IF f > 0 /\ m % 10 = 0 THEN strip_zeros(m \div 10, f - 1)
    ELSE [mant |-> m, frac |-> f]

\* std::from_chars(first, last, double&): the longest prefix matching
\*   [-] digits [. digits] [ (e|E) [+|-] digits ]      (at least one digit
\*   before the exponent, at least one in it)
\* is converted; a leading '+' or whitespace is not accepted; characters
\* after the matched prefix are left unread and are not an error.  The
\* value is the decimal mant * 10^-frac with the sign neg.  inf / nan need
\* a cell starting with i or n after the sign; no cell that converts has
\* either.
from_chars(str) ==
    LET neg    == Len(str) >= 1 /\ str[1] = "-"
        first  == IF neg THEN 2 ELSE 1
        n1     == digit_run(str, first)
        dot    == first + n1
        hasDot == dot <= Len(str) /\ str[dot] = "."
        n2     == IF hasDot THEN digit_run(str, dot + 1) ELSE 0
        mf     == digits_value(str, first, n1) * (10 ^ n2)
                    + digits_value(str, dot + 1, n2)
        p      == IF hasDot THEN dot + 1 + n2 ELSE dot
        hasE   == p <= Len(str) /\ str[p] \in {"e", "E"}
        eneg   == p + 1 <= Len(str) /\ str[p + 1] = "-"
        epos   == p + 1 <= Len(str) /\ str[p + 1] = "+"
        efirst == IF eneg \/ epos THEN p + 2 ELSE p + 1
        ne     == IF hasE THEN digit_run(str, efirst) ELSE 0
        ex     == digits_value(str, efirst, ne)
        scale  == (IF eneg THEN 0 - ex ELSE ex) - n2
        nz     == IF scale >= 0 THEN strip_zeros(mf * (10 ^ scale), 0)
                  ELSE strip_zeros(mf, 0 - scale)
    IN IF n1 + n2 = 0
         THEN [ok |-> FALSE, value |-> [neg |-> FALSE, mant |-> 0, frac |-> 0]]
         ELSE [ok |-> TRUE,
               value |-> [neg |-> neg, mant |-> nz.mant, frac |-> nz.frac]]

-----------------------------------------------------------------------------
(* ReadError and the result of read *)

NoResult == [status |-> "none", kind |-> "", cell |-> <<>>,
             expected |-> EmptyArray, col |-> 0, row |-> 0, peek |-> NUL]

Success == [NoResult EXCEPT !.status = "ok"]

\* mutant of ReadError: an error of no declared kind
ReadError_undeclared(kind, cell, expected, col, r, pk) ==
    [status |-> "error", kind |-> "Undeclared", cell |-> cell,
     expected |-> expected, col |-> col, row |-> r, peek |-> pk]

\* mutant of ReadError: the row and the column change places
ReadError_transposed(kind, cell, expected, col, r, pk) ==
    [status |-> "error", kind |-> kind, cell |-> cell,
     expected |-> expected, col |-> r, row |-> col, peek |-> pk]

\* ReadError(ErrorCase, cell, expected, col, row, peek)
ReadError(kind, cell, expected, col, r, pk) ==
    [status |-> "error", kind |-> kind, cell |-> cell,
     expected |-> expected, col |-> col, row |-> r, peek |-> pk]

Column(name, data) == [name |-> name, data |-> data]


-----------------------------------------------------------------------------
(* Inputs *)

Alphabet == {"1", "a", ",", NL, SP, QT}

ShortInputs == UNION {[1..n -> Alphabet] : n \in 0..MaxLen}

\* Time, Value\n1, 0.5\n2, 0.25\n
InTimeValue ==
    <<"T", "i", "m", "e", ",", SP, "V", "a", "l", "u", "e", NL, "1", ",", SP, "0", ".", "5", NL, "2", ",", SP, "0", ".", "2", "5", NL>>

\* 1, 2, 3\n4, 5\n
InShortRow ==
    <<"1", ",", SP, "2", ",", SP, "3", NL, "4", ",", SP, "5", NL>>

\* a,b,a\n1,2
InShortRowEof ==
    <<"a", ",", "b", ",", "a", NL, "1", ",", "2">>

\* a,b\n1,2,3\n
InLongRow ==
    <<"a", ",", "b", NL, "1", ",", "2", ",", "3", NL>>

\* "a,b"
InQuoted ==
    <<QT, "a", ",", "b", QT>>

\* "a,b"\n1\n
InQuotedNL ==
    <<QT, "a", ",", "b", QT, NL, "1", NL>>

\* a,b\n1,2\n3,4\n
InTwoRows ==
    <<"a", ",", "b", NL, "1", ",", "2", NL, "3", ",", "4", NL>>

\* 1,2\n3,4
InTwoRowsEof ==
    <<"1", ",", "2", NL, "3", ",", "4">>

\*  +1\n2\n
InPlus ==
    <<SP, "+", "1", NL, "2", NL>>

\* \n -1,2\n-3,4\n
InMinus ==
    <<NL, SP, "-", "1", ",", "2", NL, "-", "3", ",", "4", NL>>

\* a,b
InHeaderEof ==
    <<"a", ",", "b">>

\*  T\n1\n
InT ==
    <<SP, "T", NL, "1", NL>>

\* a\n\n1\n \n2\n\n
InBlankLines ==
    <<"a", NL, NL, "1", NL, SP, NL, "2", NL, NL>>

\* a,b\n1,\n2\n
InContinued ==
    <<"a", ",", "b", NL, "1", ",", NL, "2", NL>>

\* a,b\n1,<space>
InRowEof ==
    <<"a", ",", "b", NL, "1", ",", SP>>

\* 1.234567,1234567\n
InSevenDigits ==
    <<"1", ".", "2", "3", "4", "5", "6", "7", ",",
      "1", "2", "3", "4", "5", "6", "7", NL>>

\* a,b\n1,2\n3,a\n
InThirdRowError ==
    <<"a", ",", "b", NL, "1", ",", "2", NL, "3", ",", "a", NL>>

\* a,"b\n1,2\n
InOpenQuote ==
    <<"a", ",", QT, "b", NL, "1", ",", "2", NL>>

\* "a',b\n1,2\n
InMixedQuotes ==
    <<QT, "a", "'", ",", "b", NL, "1", ",", "2", NL>>

\* "1"\n"2"\n
InQuotedNumbers ==
    <<QT, "1", QT, NL, QT, "2", QT, NL>>

NamedInputs ==
    {InTimeValue,
     InQuotedNumbers,
     InMixedQuotes,
     InOpenQuote,
     InThirdRowError,
     InRowEof,
     InSevenDigits,
     InShortRow,
     InShortRowEof,
     InLongRow,
     InQuoted,
     InQuotedNL,
     InTwoRows,
     InTwoRowsEof,
     InPlus,
     InMinus,
     InHeaderEof,
     InT,
     InBlankLines,
     InContinued}

Rep(c, n) == [i \in 1..n |-> c]

\* cells of BufferSize - 1, BufferSize and BufferSize + 1 characters
LongCells ==
    {<<h>> \o Rep(f, n - 1) :
        h \in {"a", "1"}, f \in {"a", SP},
        n \in {BufferSize - 1, BufferSize, BufferSize + 1}}

LongPrefixes ==
    {<<>>, <<"a", NL>>, <<"1", NL>>, <<"a", ",", "a", NL, "1", ",">>}

LongSuffixes == {<<>>, <<NL>>, <<",", "1">>}

LongInputs ==
    {p \o c \o t : p \in LongPrefixes, c \in LongCells, t \in LongSuffixes}

Inputs == ShortInputs \cup NamedInputs \cup LongInputs

\* 1|2;3/4,5|6\n
InMixedSeparators ==
    <<"1", "|", "2", ";", "3", "/", "4", ",", "5", "|", "6", NL>>

\* 1,2;3\n
InCommaSemicolon ==
    <<"1", ",", "2", ";", "3", NL>>

\* the inputs that are read after a call of a separator setter
SeparatorInputs == {InMixedSeparators, InCommaSemicolon}

\* nine separator characters each, one more than the arrays hold
LongValueSeparators == <<"|", ";", ":", "=", "$", "?", "*", "_", ",">>

LongLineSeparators == <<"/", "!", "#", "%", "&", "@", "~", "^", NL>>

\* the arguments the separator setters are called with
ValueSeparatorArgs == {<<>>, <<"|">>, <<"|", ";", ",">>, LongValueSeparators}

LineSeparatorArgs == {<<>>, <<"/">>, <<"/", NL>>, LongLineSeparators}

\* number of setter calls that are followed
MaxSets == 2

\* the first SepCapacity characters of s
Truncated(s) == SubSeq(s, 1, IF Len(s) < SepCapacity THEN Len(s) ELSE SepCapacity)

\* no setter was called: the accepted sets are those of the constructor
NoCalls ==
    [count |-> 0, fn |-> "none", arg |-> <<>>,
     value |-> <<",", ";", "\t">>, line |-> <<NL>>]

\* the history after the call fn(sep)
Called(h, fn, sep) ==
    [count |-> h.count + 1, fn |-> fn, arg |-> sep,
     value |-> IF fn = "value" /\ sep # <<>> THEN Truncated(sep) ELSE h.value,
     line |-> IF fn = "line" /\ sep # <<>> THEN Truncated(sep) ELSE h.line]

\* inputs that are also offered on streams whose state is not good
FlagInputs == {<<>>, <<"1">>, <<"a", NL, "1", NL>>}

\* a std::istringstream holding buf, nothing read from it yet
istringstream(buf) ==
    [buf |-> buf, pos |-> 1,
     eofbit |-> FALSE, failbit |-> FALSE, badbit |-> FALSE]

\* the streams a caller can hand to read: fresh ones, and ones that an
\* earlier use left with state flags set
Streams ==
    {istringstream(b) : b \in Inputs \cup SeparatorInputs}
    \cup {[istringstream(b) EXCEPT !.eofbit = e, !.failbit = f, !.badbit = d,
                                   !.pos = IF e THEN Len(b) + 1 ELSE 1] :
            b \in FlagInputs, e \in BOOLEAN, f \in BOOLEAN, d \in BOOLEAN}

\* a table that was filled before the call (push_back is public); its name
\* and value cannot be produced by parsing any input above
OldColumn == Column(<<"o", "l", "d">>, <<[neg |-> FALSE, mant |-> 99, frac |-> 0]>>)

PriorTables == {<<>>, <<OldColumn>>}

SettingsSet ==
    {[DefaultSettings EXCEPT !.header_type = h, !.auto_quotes = q] :
        h \in HeaderTypes, q \in BOOLEAN}

-----------------------------------------------------------------------------
(* CSVd::write *)

\* number of calls of write that are followed
MaxWrites == 2

\* std::ios_base::precision() of a fresh output stream
precision == 6

DigitChar == [d \in 0..9 |-> CHOOSE c \in Digits : DigitVal[c] = d]

RECURSIVE num_digits(_)
num_digits(m) == IF m < 10 THEN 1 ELSE 1 + num_digits(m \div 10)

\* "stream << index" for a size_t: its decimal digits
RECURSIVE format_index(_)
format_index(m) ==
    IF m < 10 THEN <<DigitChar[m]>>
    ELSE Append(format_index(m \div 10), DigitChar[m % 10])

RECURSIVE strip_trailing_zeros(_)
strip_trailing_zeros(d) ==
    IF Len(d) > 1 /\ d[Len(d)] = "0"
      THEN strip_trailing_zeros(SubSeq(d, 1, Len(d) - 1))
      ELSE d

\* "stream << value" for a double on a stream with default flags: the %g
\* conversion with the stream's precision.  The value is rounded to
\* precision significant digits (a value exactly half way is rounded
\* according to its binary representation; no value below is half way) and
\* trailing zeros are removed; with X the decimal exponent of the leading
\* digit the style is d.ddde+XX when X < -4 or X >= precision, and fixed
\* otherwise.
format_double(v) ==
    LET n    == num_digits(v.mant)
        k    == n - precision
        q    == IF k > 0 THEN v.mant \div (10 ^ k) ELSE v.mant
        r    == IF k > 0 THEN v.mant % (10 ^ k) ELSE 0
        m1   == IF k > 0 /\ 2 * r >= 10 ^ k THEN q + 1 ELSE q
        over == m1 = 10 ^ precision
        m    == IF over THEN m1 \div 10 ELSE m1
        X    == (n - 1 - v.frac) + (IF over THEN 1 ELSE 0)
        D    == strip_trailing_zeros(format_index(m))
        absX == IF X < 0 THEN 0 - X ELSE X
        sign == IF v.neg THEN <<"-">> ELSE <<>>
        sci  == <<D[1]>> \o (IF Len(D) > 1 THEN <<".">> \o Tail(D) ELSE <<>>)
                  \o <<"e", IF X < 0 THEN "-" ELSE "+">>
                  \o (IF absX < 10 THEN <<"0">> ELSE <<>>)
                  \o format_index(absX)
        fix  == IF X >= 0
                  THEN (IF Len(D) >= X + 1 THEN SubSeq(D, 1, X + 1)
                        ELSE D \o Rep("0", X + 1 - Len(D)))
                       \o (IF Len(D) > X + 1
                             THEN <<".">> \o SubSeq(D, X + 2, Len(D))
                             ELSE <<>>)
                  ELSE <<"0", ".">> \o Rep("0", absX - 1) \o D
    IN IF v.mant = 0 THEN sign \o <<"0">>
       ELSE IF X < -4 \/ X >= precision THEN sign \o sci
       ELSE sign \o fix

\* mutant of write_header_type: Auto always writes a header
write_header_type_always(cols, st) ==
    IF st.header_type = "Auto" THEN "FirstRow" ELSE st.header_type

\* write: the header type that is written
write_header_type(cols, st) ==
    IF st.header_type = "Auto"
      THEN IF \E i \in DOMAIN cols : cols[i].name # <<>>
             THEN "FirstRow" ELSE "None"
      ELSE st.header_type

\* write: what follows the i-th of n cells of a row
separator(i, n, st) ==
    IF i = n THEN st.line_separators[1] ELSE st.value_separators[1]

\* mutant of header_cell: a substituted index is quoted like a name
header_cell_index_as_name(col, index, st) ==
    LET q     == <<st.quotes[1]>>
        outer == IF st.auto_quotes THEN q ELSE <<>>
    IN outer
       \o (IF col.name # <<>> THEN col.name ELSE format_index(index))
       \o outer

\* write: the header cell of the column col with the zero-based index
header_cell(col, index, st) ==
    LET q     == <<st.quotes[1]>>
        outer == IF st.auto_quotes THEN q ELSE <<>>
        inner == IF st.auto_quotes THEN <<>> ELSE q
    IN outer
       \o (IF col.name # <<>> THEN col.name
           ELSE inner \o format_index(index) \o inner)
       \o outer

\* write: the header row from the i-th column on
RECURSIVE header_row(_, _, _)
header_row(cols, st, i) ==
    IF i > Len(cols) THEN <<>>
    ELSE header_cell(cols[i], i - 1, st) \o <<separator(i, Len(cols), st)>>
           \o header_row(cols, st, i + 1)

\* mutant of min_data_length: no data row is written
no_data_length(cols) == 0

\* write: "get the smallest data vector size"
min_data_length(cols) ==
    CHOOSE n \in {Len(cols[i].data) : i \in DOMAIN cols} :
        \A i \in DOMAIN cols : n <= Len(cols[i].data)

\* write: the data row r (one-based here) from the i-th column on
RECURSIVE data_row(_, _, _, _)
data_row(cols, st, r, i) ==
    IF i > Len(cols) THEN <<>>
    ELSE format_double(cols[i].data[r]) \o <<separator(i, Len(cols), st)>>
           \o data_row(cols, st, r, i + 1)

\* write: the data rows r .. n
RECURSIVE data_rows(_, _, _, _)
data_rows(cols, st, r, n) ==
    IF r > n THEN <<>>
    ELSE data_row(cols, st, r, 1) \o data_rows(cols, st, r + 1, n)

\* CSVd::write: the text sent to the output stream
write(cols, st) ==
    IF cols = <<>> THEN <<>>
    ELSE (IF write_header_type(cols, st) = "FirstRow"
            THEN header_row(cols, st, 1) ELSE <<>>)
         \o data_rows(cols, st, 1, min_data_length(cols))

-----------------------------------------------------------------------------
(* State machine *)

Init ==
    /\ stream = istringstream(<<>>)
    /\ settings \in SettingsSet
    /\ columns \in PriorTables
    /\ pc = "idle"
    /\ scan = "idle"
    /\ header_type = "Auto"
    /\ column_index = 0
    /\ column = 0
    /\ row = 0
    /\ buffer = <<>>
    /\ is_in_quote = FALSE
    /\ result = NoResult
    /\ stream0 = stream
    /\ cell_start = 0
    /\ written = <<>>
    /\ table0 = <<>>
    /\ reread = FALSE
    /\ set_calls = NoCalls

\* mutant of Fail: the offending character is consumed before the return
Fail_and_ignore(s, err) ==
    /\ stream' = ignore(s)
    /\ result' = err
    /\ pc' = "done"
    /\ scan' = "idle"

\* return std::unexpected(ReadError(...)) from any place of read
Fail(s, err) ==
    /\ stream' = s
    /\ result' = err
    /\ pc' = "done"
    /\ scan' = "idle"

\* mutant of is_in_quote_initially: the flag of the scan before is kept
is_in_quote_kept(q) == q

\* read_cell: "bool is_in_quote = false;", q being the flag that the scan
\* before ended with
is_in_quote_initially(q) == FALSE

\* the call read_cell(buffer, sizeof(buffer), stream)
call_read_cell(s) ==
    /\ stream' = s
    /\ cell_start' = s.pos
    /\ buffer' = <<>>
    /\ is_in_quote' = is_in_quote_initially(is_in_quote)
    /\ scan' = "read_cell"

\* mutant of resolve_auto: leading whitespace is not skipped
resolve_auto_no_skip(s0) ==
    LET p1 == peek(s0)
        p2 == peek(p1.s)
        p3 == peek(p2.s)
    IN IF p1.c \in Digits THEN [s |-> p1.s, header_type |-> "None"]
       ELSE IF p2.c = "+" THEN [s |-> p2.s, header_type |-> "None"]
       ELSE IF p3.c = "-" THEN [s |-> p3.s, header_type |-> "None"]
       ELSE [s |-> p3.s, header_type |-> "FirstRow"]

\* header-type resolution of read for HeaderType::Auto: the stream after
\* skip_whitespaces and the up to three peeks, and the resolved type
resolve_auto(s0) ==
    LET s  == skip_whitespaces(s0)
        p1 == peek(s)
        p2 == peek(p1.s)
        p3 == peek(p2.s)
    IN IF p1.c \in Digits THEN [s |-> p1.s, header_type |-> "None"]
       ELSE IF p2.c = "+" THEN [s |-> p2.s, header_type |-> "None"]
       ELSE IF p3.c = "-" THEN [s |-> p3.s, header_type |-> "None"]
       ELSE [s |-> p3.s, header_type |-> "FirstRow"]

\* mutant of header_type_local: the resolved type is stored in the settings
header_type_stored(st, h) == [st EXCEPT !.header_type = h]

\* "HeaderType header_type = this->settings_.header_type;": read resolves
\* the header type h in a local variable, the settings st keep theirs
header_type_local(st, h) == st

\* mutant of bad: the entry guard does not see the flag
bad_unseen(s) == FALSE

\* stream.bad() in the entry guard of read
bad(s) == s.badbit

\* CSVd::read, called on the stream s, up to the call of read_with_header /
\* read_without_header
read_call(s) ==
    /\ stream0' = s
    /\ column_index' = 0
    /\ buffer' = <<>>
    /\ is_in_quote' = FALSE
    /\ cell_start' = 0
    /\ IF s.eofbit
         THEN /\ Fail(s, ReadError("UnexpectedEof", <<>>, EmptyArray, 0, 0, NUL))
              /\ UNCHANGED <<columns, header_type, column, row>>
       ELSE IF bad(s)
         THEN /\ Fail(s, ReadError("BadStream", <<>>, EmptyArray, 0, 0, NUL))
              /\ UNCHANGED <<columns, header_type, column, row>>
       ELSE LET r == IF settings.header_type = "Auto"
                       THEN resolve_auto(s)
                       ELSE [s |-> s, header_type |-> settings.header_type]
            IN /\ column' = 0
               /\ row' = 0
               /\ columns' = <<>>
               /\ header_type' = r.header_type
               /\ stream' = r.s
               /\ pc' = IF r.header_type = "FirstRow"
                          THEN "read_with_header" ELSE "read_without_header"
               /\ scan' = "idle"
               /\ result' = NoResult
    /\ settings' = header_type_local(settings, header_type')

\* CSVd::set_value_separators(sep), called before read
set_value_separators(sep) ==
    /\ pc = "idle"
    /\ set_calls.count < MaxSets
    /\ settings' = [settings EXCEPT
                      !.value_separators = set_separators(@, sep)]
    /\ set_calls' = Called(set_calls, "value", sep)
    /\ UNCHANGED <<stream, columns, pc, scan, header_type, column_index,
                   column, row, buffer, is_in_quote, result, stream0,
                   cell_start, write_vars>>

\* CSVd::set_line_separators(sep), called before read
set_line_separators(sep) ==
    /\ pc = "idle"
    /\ set_calls.count < MaxSets
    /\ settings' = [settings EXCEPT
                      !.line_separators = set_separators(@, sep)]
    /\ set_calls' = Called(set_calls, "line", sep)
    /\ UNCHANGED <<stream, columns, pc, scan, header_type, column_index,
                   column, row, buffer, is_in_quote, result, stream0,
                   cell_start, write_vars>>

\* a caller reads a stream into the table
read_begin(s) ==
    /\ pc = "idle"
    /\ set_calls = NoCalls \/ (s.buf \in SeparatorInputs /\ good(s))
    /\ read_call(s)
    /\ UNCHANGED <<write_vars, set_calls>>

\* mutant of consume_delimiter: the delimiter stays in the stream
delimiter_not_consumed(s) == s

\* "stream.ignore();" at the end of a loop iteration
consume_delimiter(s) == ignore(s)

\* mutant of buffer_full: the scan is not bounded
buffer_never_full(b) == FALSE

\* read_cell: "if(itr == buffer_last) return std::nullopt;"
buffer_full(b) == Len(b) = BufferSize

\* mutant of is_quote: only the first quote character is one
is_first_quote(st, c) == st.quotes[1] = c

\* read_cell: "std::ranges::contains(this->settings_.quotes, stream.peek())"
is_quote(st, c) == contains(st.quotes, c)

\* mutant of break_on_separators: inside quotes no separator ends the cell
break_outside_quotes(in_quote, has_value_separator, has_line_separator) ==
    (has_value_separator \/ has_line_separator) /\ ~in_quote

\* read_cell: "if(is_in_quote) has_value_separator = false;" and
\* "if(has_value_separator || has_line_separator) break;"
break_on_separators(in_quote, has_value_separator, has_line_separator) ==
    (has_value_separator /\ ~in_quote) \/ has_line_separator

\* one iteration of the loop of read_cell
read_cell_step ==
    /\ scan = "read_cell"
    /\ UNCHANGED <<write_vars, set_calls>>
    /\ UNCHANGED <<settings, columns, pc, header_type, column_index,
                   column, row, result, stream0, cell_start>>
    /\ IF stream.eofbit
         THEN /\ scan' = "cell"
              /\ UNCHANGED <<stream, buffer, is_in_quote>>
       ELSE IF buffer_full(buffer)
         THEN /\ scan' = "nullopt"
              /\ UNCHANGED <<stream, buffer, is_in_quote>>
       ELSE
         LET p1 == peek(stream)
             has_quote == is_quote(settings, p1.c)
             in_quote == IF is_in_quote THEN ~has_quote ELSE has_quote
             p2 == peek(p1.s)
             p3 == peek(p2.s)
             has_value_separator == contains(settings.value_separators, p2.c)
             has_line_separator == contains(settings.line_separators, p3.c)
             g == get(p3.s)
         IN /\ is_in_quote' = in_quote
            /\ IF break_on_separators(in_quote, has_value_separator,
                                      has_line_separator)
                 THEN /\ scan' = "cell"
                      /\ stream' = p3.s
                      /\ UNCHANGED buffer
                 ELSE /\ buffer' = Append(buffer, to_char(g.c))
                      /\ stream' = g.s
                      /\ UNCHANGED scan

\* read_with_header: the head of one loop iteration, up to read_cell
read_with_header_loop ==
    /\ pc = "read_with_header" /\ scan = "idle"
    /\ UNCHANGED <<write_vars, set_calls>>
    /\ ~stream.eofbit
    /\ UNCHANGED <<settings, columns, header_type, column_index, column, row,
                   stream0>>
    /\ IF stream.badbit
         THEN /\ Fail(stream, ReadError("BadStream", <<>>, EmptyArray,
                                        column_index, 0, NUL))
              /\ UNCHANGED <<buffer, is_in_quote, cell_start>>
         ELSE /\ call_read_cell(stream)
              /\ UNCHANGED <<pc, result>>

\* read_with_header: the rest of the iteration, after read_cell returned
read_with_header_cell ==
    /\ pc = "read_with_header" /\ scan \in {"cell", "nullopt"}
    /\ UNCHANGED <<write_vars, set_calls>>
    /\ UNCHANGED <<settings, header_type, column, buffer, is_in_quote,
                   stream0, cell_start>>
    /\ LET pk == peek(stream)
           c1 == trim_whitespaces(buffer)
           cell == IF settings.auto_quotes
                     THEN trim(c1, Range(quotes(settings))) ELSE c1
           has_line_separator == contains(settings.line_separators, pk.c)
       IN IF scan = "nullopt"
            THEN /\ Fail(pk.s, ReadError("CellTooLong", <<>>, EmptyArray,
                                         column_index, 0, to_char(pk.c)))
                 /\ UNCHANGED <<columns, column_index, row>>
            ELSE /\ columns' = Append(columns, Column(cell, <<>>))
                 /\ stream' = consume_delimiter(pk.s)
                 /\ scan' = "idle"
                 /\ UNCHANGED result
                 /\ IF has_line_separator
                      THEN /\ pc' = "data"
                           /\ row' = row + 1
                           /\ UNCHANGED column_index
                      ELSE /\ column_index' = column_index + 1
                           /\ UNCHANGED <<pc, row>>

\* the loop of read_with_header ends because the stream is at its end;
\* read_with_header returns and read increments row
read_with_header_return ==
    /\ pc = "read_with_header" /\ scan = "idle"
    /\ UNCHANGED <<write_vars, set_calls>>
    /\ stream.eofbit
    /\ pc' = "data"
    /\ row' = row + 1
    /\ UNCHANGED <<stream, settings, columns, scan, header_type,
                   column_index, column, buffer, is_in_quote, result,
                   stream0, cell_start>>

\* read_without_header: the head of one loop iteration, up to read_cell
read_without_header_loop ==
    /\ pc = "read_without_header" /\ scan = "idle"
    /\ UNCHANGED <<write_vars, set_calls>>
    /\ ~stream.eofbit
    /\ UNCHANGED <<settings, columns, header_type, column_index, column, row,
                   stream0>>
    /\ IF stream.badbit
         THEN /\ Fail(stream, ReadError("BadStream", <<>>, EmptyArray,
                                        column_index, 0, NUL))
              /\ UNCHANGED <<buffer, is_in_quote, cell_start>>
         ELSE /\ call_read_cell(stream)
              /\ UNCHANGED <<pc, result>>

\* read_without_header: the rest of the iteration, after read_cell returned
read_without_header_cell ==
    /\ pc = "read_without_header" /\ scan \in {"cell", "nullopt"}
    /\ UNCHANGED <<write_vars, set_calls>>
    /\ UNCHANGED <<settings, header_type, column, buffer, is_in_quote,
                   stream0, cell_start>>
    /\ LET pk == peek(stream)
           c1 == trim_whitespaces(buffer)
           cell == IF settings.auto_quotes
                     THEN trim(c1, Range(quotes(settings))) ELSE c1
           fc == from_chars(cell)
           has_line_separator == contains(settings.line_separators, pk.c)
       IN IF scan = "nullopt"
            THEN /\ Fail(pk.s, ReadError("CellTooLong", <<>>, EmptyArray,
                                         column_index, 0, to_char(pk.c)))
                 /\ UNCHANGED <<columns, column_index, row>>
          ELSE IF ~fc.ok
            THEN /\ Fail(pk.s, ReadError("ErrorParsingFloat", cell,
                                  EmptyArray, column_index, 0, to_char(pk.c)))
                 /\ UNCHANGED <<columns, column_index, row>>
          ELSE /\ columns' = Append(columns, Column(<<>>, <<fc.value>>))
               /\ stream' = consume_delimiter(pk.s)
               /\ scan' = "idle"
               /\ UNCHANGED result
               /\ IF has_line_separator
                    THEN /\ pc' = "data"
                         /\ row' = row + 1
                         /\ UNCHANGED column_index
                    ELSE /\ column_index' = column_index + 1
                         /\ UNCHANGED <<pc, row>>

\* the loop of read_without_header ends because the stream is at its end;
\* read_without_header returns and read increments row
read_without_header_return ==
    /\ pc = "read_without_header" /\ scan = "idle"
    /\ UNCHANGED <<write_vars, set_calls>>
    /\ stream.eofbit
    /\ pc' = "data"
    /\ row' = row + 1
    /\ UNCHANGED <<stream, settings, columns, scan, header_type,
                   column_index, column, buffer, is_in_quote, result,
                   stream0, cell_start>>

\* mutant of eof_ends_table: the end of the stream is accepted in any column
eof_ends_table_anywhere(col) == TRUE

\* the data loop: "if(column == 0)" once the stream is at its end
eof_ends_table(col) == col = 0

\* the data loop of read: the head of one iteration, up to read_cell
read_data_loop ==
    /\ pc = "data" /\ scan = "idle"
    /\ UNCHANGED <<write_vars, set_calls>>
    /\ ~stream.eofbit
    /\ UNCHANGED <<settings, columns, header_type, column_index, column, row,
                   stream0>>
    /\ IF stream.badbit
         THEN /\ Fail(stream, ReadError("BadStream", <<>>, EmptyArray,
                                        column, row, NUL))
              /\ UNCHANGED <<buffer, is_in_quote, cell_start>>
       ELSE LET s1 == skip_whitespaces(stream) IN
         IF s1.eofbit
           THEN IF eof_ends_table(column)
                  THEN /\ stream' = s1
                       /\ result' = Success
                       /\ pc' = "done"
                       /\ UNCHANGED <<scan, buffer, is_in_quote, cell_start>>
                  ELSE /\ Fail(s1, ReadError("UnexpectedEof", <<>>,
                                             EmptyArray, column, row, NUL))
                       /\ UNCHANGED <<buffer, is_in_quote, cell_start>>
           ELSE /\ call_read_cell(s1)
                /\ UNCHANGED <<pc, result>>

\* mutant of row_ends_early: a short row is accepted
row_never_ends_early(col, size) == FALSE

\* the data loop: "if(column+1 != this->size())" at a line end
row_ends_early(col, size) == col + 1 # size

\* mutant of row_full: the row counts as full one cell too late
row_full_late(col, size) == col = size

\* mutant of row_full: a row may go on after the last column
row_never_full(col, size) == FALSE

\* the data loop: "if(column+1 == this->size())" where the line goes on
row_full(col, size) == col + 1 = size

\* mutant of unexpected_line_separator: the column is reported one-based
unexpected_line_separator_one_based(cell, st, col, r, pk) ==
    ReadError("UnexpectedLineSeparator", cell, st.line_separators, col + 1, r,
              IF pk.s.eofbit THEN NUL ELSE to_char(pk.c))

\* mutant of unexpected_line_separator: no expected set is passed
unexpected_line_separator_bare(cell, st, col, r, pk) ==
    ReadError("UnexpectedLineSeparator", cell, EmptyArray, col, r,
              IF pk.s.eofbit THEN NUL ELSE to_char(pk.c))

\* the data loop: the error returned for a row that ends early
unexpected_line_separator(cell, st, col, r, pk) ==
    ReadError("UnexpectedLineSeparator", cell, st.line_separators, col, r,
              IF pk.s.eofbit THEN NUL ELSE to_char(pk.c))

\* mutant of is_value_separator: only the first character is accepted
is_first_value_separator(st, c) == st.value_separators[1] = c

\* the data loop: "std::ranges::contains(this->settings_.value_separators,
\* stream.peek())" where the row goes on
is_value_separator(st, c) == contains(st.value_separators, c)

\* mutant of at: every value goes to the first column
at_front(pos) == 1

\* "this->at(column)": the place of the column with the zero-based index
\* pos in the sequence of columns
at(pos) == pos + 1

\* the data loop of read: the rest of the iteration, after read_cell
\* returned
read_data_cell ==
    /\ pc = "data" /\ scan \in {"cell", "nullopt"}
    /\ UNCHANGED <<write_vars, set_calls>>
    /\ UNCHANGED <<settings, header_type, column_index, buffer, is_in_quote,
                   stream0, cell_start>>
    /\ LET pk == peek(stream)
           cell == trim_whitespaces(buffer)
           fc == from_chars(cell)
       IN IF scan = "nullopt"
            THEN /\ Fail(pk.s, ReadError("CellTooLong", <<>>, EmptyArray,
                                         column, row, to_char(pk.c)))
                 /\ UNCHANGED <<columns, column, row>>
          ELSE IF ~fc.ok
            THEN /\ Fail(pk.s, ReadError("ErrorParsingFloat", cell,
                                  EmptyArray, column, row, to_char(pk.c)))
                 /\ UNCHANGED <<columns, column, row>>
          ELSE IF ~(column < Len(columns))
            THEN /\ Fail(pk.s, ReadError("CellOutOfRange", cell, EmptyArray,
                                         column, row, to_char(pk.c)))
                 /\ UNCHANGED <<columns, column, row>>
          ELSE
            /\ columns' = [columns EXCEPT ![at(column)].data =
                               Append(@, fc.value)]
            /\ IF contains(settings.line_separators, pk.c) \/ pk.s.eofbit
                 THEN IF row_ends_early(column, Len(columns))
                        THEN /\ Fail(pk.s,
                                  unexpected_line_separator(cell, settings,
                                                            column, row, pk))
                             /\ UNCHANGED <<column, row>>
                        ELSE /\ column' = 0
                             /\ row' = row + 1
                             /\ stream' = consume_delimiter(pk.s)
                             /\ scan' = "idle"
                             /\ UNCHANGED <<pc, result>>
                 ELSE IF row_full(column, Len(columns))
                        THEN /\ Fail(pk.s,
                                  ReadError("ExpectedLineSeparator", cell,
                                     settings.line_separators, column, row,
                                     to_char(pk.c)))
                             /\ UNCHANGED <<column, row>>
                      ELSE IF ~is_value_separator(settings, pk.c)
                        THEN /\ Fail(pk.s,
                                  ReadError("ExpectedValueSeparator", cell,
                                     settings.value_separators, column, row,
                                     to_char(pk.c)))
                             /\ UNCHANGED <<column, row>>
                      ELSE /\ column' = column + 1
                           /\ stream' = consume_delimiter(pk.s)
                           /\ scan' = "idle"
                           /\ UNCHANGED <<pc, result, row>>

\* the data loop ends because the stream is at its end: return {}
read_return ==
    /\ pc = "data" /\ scan = "idle"
    /\ UNCHANGED <<write_vars, set_calls>>
    /\ stream.eofbit
    /\ result' = Success
    /\ pc' = "done"
    /\ UNCHANGED <<stream, settings, columns, scan, header_type,
                   column_index, column, row, buffer, is_in_quote,
                   stream0, cell_start>>

\* mutant of table_after_write: write empties the table
table_lost_by_write(cols) == <<>>

\* "void CSVd::write(std::ostream& stream) const": the table after the call
table_after_write(cols) == cols

\* a caller writes the table, as read left it, to a fresh output stream
write_call ==
    /\ pc = "done" /\ ~reread
    /\ Len(written) < MaxWrites
    /\ written' = Append(written, write(columns, settings))
    /\ columns' = table_after_write(columns)
    /\ UNCHANGED <<stream, settings, pc, scan, header_type, column_index,
                   column, row, buffer, is_in_quote, result, stream0,
                   cell_start, table0, reread, set_calls>>

\* a caller reads the text written first into the same CSVd object again,
\* after a successful read
read_again ==
    /\ pc = "done" /\ ~reread
    /\ result.status = "ok"
    /\ Len(written) = MaxWrites
    /\ reread' = TRUE
    /\ table0' = columns
    /\ UNCHANGED <<written, set_calls>>
    /\ read_call(istringstream(written[1]))

Next ==
    \/ \E s \in Streams : read_begin(s)
    \/ \E a \in ValueSeparatorArgs : set_value_separators(a)
    \/ \E a \in LineSeparatorArgs : set_line_separators(a)
    \/ write_call
    \/ read_again
    \/ read_cell_step
    \/ read_with_header_loop
    \/ read_with_header_cell
    \/ read_with_header_return
    \/ read_without_header_loop
    \/ read_without_header_cell
    \/ read_without_header_return
    \/ read_data_loop
    \/ read_data_cell
    \/ read_return

Spec == Init /\ [][Next]_vars

-----------------------------------------------------------------------------
(* Vocabulary of the properties, defined on the input text alone *)

ValueSeparatorSet == Range(settings.value_separators) \ {NUL}
LineSeparatorSet == Range(settings.line_separators) \ {NUL}
QuoteSet == Range(settings.quotes) \ {NUL}

Min(S) == CHOOSE i \in S : \A j \in S : i <= j

\* the text handed to read
Input == stream0.buf

\* index of the first character of the input that is not whitespace
\* (Len + 1 when there is none)
FirstNonWhitespace ==
    Min({i \in 1..Len(Input) : Input[i] \notin whitespaces}
        \cup {Len(Input) + 1})

\* the character a stream delivers next after leading whitespace, EOF when
\* it delivers none (end of input, or a stream that is not good)
NextCharacter ==
    IF good(stream0) /\ FirstNonWhitespace <= Len(Input)
      THEN Input[FirstNonWhitespace] ELSE EOF

\* position i of the input ends a cell that starts at position p: it holds
\* a line separator, or a value separator outside a quoted region (an even
\* number of quote characters in p..i)
EndsCell(p, i) ==
    \/ Input[i] \in LineSeparatorSet
    \/ /\ Input[i] \in ValueSeparatorSet
       /\ Cardinality({j \in p..i : Input[j] \in QuoteSet}) % 2 = 0

\* position of the delimiter that ends the cell starting at p
\* (Len + 1 when the end of the input ends it)
CellEnd(p) ==
    Min({i \in p..Len(Input) : EndsCell(p, i)} \cup {Len(Input) + 1})

\* the text of the cell starting at p, and its length
CellText(p) == SubSeq(Input, p, CellEnd(p) - 1)
CellLength(p) == CellEnd(p) - p

\* str without its leading and trailing characters of the set chars
Strip(str, chars) ==
    LET keep == {i \in 1..Len(str) : str[i] \notin chars}
    IN IF keep = {} THEN <<>>
       ELSE SubSeq(str, Min(keep), CHOOSE i \in keep : \A j \in keep : j <= i)

\* first position of the rows that follow the header row (the first row
\* itself when there is no header)
BodyStart ==
    LET first == IF settings.header_type = "Auto"
                   THEN FirstNonWhitespace ELSE 1
    IN IF header_type = "FirstRow"
         THEN Min({i \in first..Len(Input) : Input[i] \in LineSeparatorSet}
                  \cup {Len(Input) + 1}) + 1
         ELSE first

\* position i starts a row of the body: it is the first character of its
\* line that is not whitespace
StartsRow(i) ==
    /\ Input[i] \notin whitespaces \cup LineSeparatorSet
    /\ \A k \in BodyStart..(i - 1) :
          (\A m \in k..(i - 1) : Input[m] \notin LineSeparatorSet)
              => Input[k] \in whitespaces

\* number of non-blank lines of the input after the header
DataRowsOfInput ==
    Cardinality({i \in BodyStart..Len(Input) : StartsRow(i)})

\* some line of the input ends with a value separator, so that a row may
\* continue on the next line
HasContinuationLine ==
    \E i \in 1..Len(Input) : \E j \in (i + 1)..Len(Input) :
        /\ Input[i] \in ValueSeparatorSet
        /\ Input[j] \in LineSeparatorSet
        /\ \A k \in (i + 1)..(j - 1) : Input[k] \in whitespaces

\* number of data rows the parser has completed
DataRowsRead == IF header_type = "FirstRow" THEN row - 1 ELSE row

Succeeded == pc = "done" /\ result.status = "ok"
Failed(kind) == pc = "done" /\ result.status = "error" /\ result.kind = kind

Num(m, f) == [neg |-> FALSE, mant |-> m, frac |-> f]

-----------------------------------------------------------------------------
(* Properties *)

StartsWithNumber(str) ==
    LET t == IF str # <<>> /\ str[1] = "-" THEN Tail(str) ELSE str
    IN /\ t # <<>>
       /\ \/ t[1] \in Digits
          \/ t[1] = "." /\ Len(t) >= 2 /\ t[2] \in Digits

\* read_cell has returned a data cell that converts to a number
NumericDataCell ==
    /\ pc = "data" /\ scan = "cell"
    /\ StartsWithNumber(Strip(CellText(cell_start), whitespaces))

\* what ends the cell that was scanned last
CellEndsLine ==
    \/ CellEnd(cell_start) > Len(Input)
    \/ Input[CellEnd(cell_start)] \in LineSeparatorSet

CellEndsAtValueSeparator ==
    /\ CellEnd(cell_start) <= Len(Input)
    /\ Input[CellEnd(cell_start)] \in ValueSeparatorSet

\* C2: a data row that ends, by a line separator or by the end of the
\* stream, after fewer cells than there are columns makes read fail with
\* UnexpectedLineSeparator, carrying the row index of that row and the
\* column index of the last cell read in it.
C2_ShortRow ==
    [][(NumericDataCell /\ column + 1 < Len(columns) /\ CellEndsLine)
         => /\ pc' = "done"
            /\ result'.status = "error"
            /\ result'.kind = "UnexpectedLineSeparator"
            /\ result'.row = row
            /\ result'.col = column]_vars

\* C2 witness: `1, 2, 3\n4, 5\n` failed with UnexpectedLineSeparator at
\* row 1, column 1
C2_Witness ==
    /\ Failed("UnexpectedLineSeparator")
    /\ Input = InShortRow
    /\ result.row = 1
    /\ result.col = 1

\* C3 (as claimed): a data row with more cells than there are columns, that
\* is one whose cell in the last column is followed by a value separator,
\* makes read fail with CellOutOfRange.
C3_TooManyCells ==
    [][(NumericDataCell /\ column + 1 = Len(columns)
          /\ CellEndsAtValueSeparator)
         => /\ pc' = "done"
            /\ result'.status = "error"
            /\ result'.kind = "CellOutOfRange"]_vars

\* C4 (as claimed): after any call to read, successful or failed with any
\* error kind, the table holds no column and no value from before the call.
C4_TableCleared ==
    pc = "done" =>
        \A i \in DOMAIN columns :
            /\ columns[i].name # OldColumn.name
            /\ \A k \in DOMAIN columns[i].data :
                  columns[i].data[k] # OldColumn.data[1]

\* C5 (as claimed): when no unread character remains in the stream handed
\* to read (a stream that is otherwise usable: good, or flagged as at its
\* end), read fails with UnexpectedEof, whatever the header_type is; it
\* never succeeds.
C5_ExhaustedStream ==
    (pc = "done" /\ stream0.pos > Len(stream0.buf)
       /\ (good(stream0) \/ stream0.eofbit))
        => Failed("UnexpectedEof")

\* the name the claim gives to the header cell scanned last
HeaderCellName ==
    LET t == Strip(CellText(cell_start), whitespaces)
    IN IF settings.auto_quotes THEN Strip(t, QuoteSet) ELSE t

\* C6 (as claimed): with a header row every header cell yields one column,
\* in header order, named by the cell with surrounding whitespace and (with
\* auto_quotes) surrounding quote characters removed and the interior
\* preserved; `Time, Value\n1, 0.5\n2, 0.25\n` with default settings gives
\* Time = [1, 2] and Value = [0.5, 0.25].
C6_HeaderNames ==
    /\ [][(pc = "read_with_header" /\ scan = "cell")
            => columns' = Append(columns, Column(HeaderCellName, <<>>))]_vars
    /\ []((Succeeded /\ Input = InTimeValue /\ settings = DefaultSettings)
            => columns = <<Column(<<"T", "i", "m", "e">>,
                                  <<Num(1, 0), Num(2, 0)>>),
                           Column(<<"V", "a", "l", "u", "e">>,
                                  <<Num(5, 1), Num(25, 2)>>)>>)

\* C7: with header_type Auto, read skips leading whitespace and resolves
\* the header type from the one character the stream delivers next, before
\* any row is consumed: a digit, + or - gives None, anything else (also no
\* character at all) gives FirstRow.
C7_AutoHeader ==
    (pc # "idle" /\ settings.header_type = "Auto"
       /\ ~stream0.eofbit /\ ~stream0.badbit)
        => /\ header_type = IF NextCharacter \in Digits \cup {"+", "-"}
                              THEN "None" ELSE "FirstRow"
           /\ (pc \in {"read_with_header", "read_without_header"}
                 /\ cell_start = 0)
                => /\ stream.pos = IF good(stream0) THEN FirstNonWhitespace
                                   ELSE stream0.pos
                   /\ columns = <<>>
                   /\ row = 0

\* C7 witness: `\n -1,2\n-3,4\n` was read as headerless under Auto
C7_Witness ==
    /\ Succeeded
    /\ settings.header_type = "Auto"
    /\ Input = InMinus
    /\ header_type = "None"
    /\ Len(columns) = 2

\* C8 (as claimed): the cell scan over `"a,b"` yields the single token a,b
\* (the text between the quote characters).
C8_QuotedCell ==
    (Input = InQuoted /\ good(stream0) /\ scan = "cell")
        => Strip(buffer, QuoteSet) = <<"a", ",", "b">>

\* C9: a cell with more than 128 characters before its delimiter or the
\* end of the stream makes read fail with CellTooLong at the row and
\* column of that cell (row 0 and the header column index in the first
\* row).
C9_CellTooLong ==
    (cell_start > 0 /\ scan \notin {"read_cell", "nullopt"}
       /\ CellLength(cell_start) > BufferSize)
        => /\ Failed("CellTooLong")
           /\ result.row = row
           /\ result.col = IF row = 0 THEN column_index ELSE column

\* C9 witness: the second cell of the first data row has 129 characters
\* and read failed with CellTooLong at row 1, column 1
C9_Witness ==
    /\ Failed("CellTooLong")
    /\ CellLength(cell_start) = BufferSize + 1
    /\ result.row = 1
    /\ result.col = 1

\* C10 (as claimed): a cell of at most 128 characters, also one of exactly
\* 128, is never rejected with CellTooLong.
C10_MaxCellLength ==
    (Failed("CellTooLong") /\ good(stream0))
        => CellLength(cell_start) > BufferSize

\* str is in its entirety a number: an optional minus sign, then digits
\* with at most one point among them, and nothing else
WholeNumber(str) ==
    LET t == IF str # <<>> /\ str[1] = "-" THEN Tail(str) ELSE str
    IN /\ \E i \in DOMAIN t : t[i] \in Digits
       /\ \A i \in DOMAIN t : t[i] \in Digits \cup {"."}
       /\ Cardinality({i \in DOMAIN t : t[i] = "."}) <= 1

\* the trimmed text of the data cell scanned last (in a headerless first
\* row quote characters are trimmed too when auto_quotes is set)
DataCellText ==
    LET t == Strip(CellText(cell_start), whitespaces)
    IN IF pc = "read_without_header" /\ settings.auto_quotes
         THEN Strip(t, QuoteSet) ELSE t

\* C11 (as claimed): a data cell, of a headerless first row or of a later
\* row, whose trimmed text is not in its entirety a number (it is empty, or
\* a number followed by other characters) makes read fail with
\* ErrorParsingFloat.
C11_WholeCellNumber ==
    [][(pc \in {"data", "read_without_header"} /\ scan = "cell"
          /\ ~WholeNumber(DataCellText))
         => /\ pc' = "done"
            /\ result'.status = "error"
            /\ result'.kind = "ErrorParsingFloat"]_vars

\* only whitespace is left unread in the stream
OnlyWhitespaceLeft ==
    \A i \in stream.pos..Len(stream.buf) : stream.buf[i] \in whitespaces

\* C12: in the data loop, when skipping whitespace reaches the end of the
\* stream, read ends successfully if the column index is 0 and fails with
\* UnexpectedEof, carrying that column and the current row, otherwise.
C12_EofInDataLoop ==
    [][(pc = "data" /\ scan = "idle" /\ good(stream) /\ OnlyWhitespaceLeft)
         => /\ pc' = "done"
            /\ IF column = 0
                 THEN result'.status = "ok"
                 ELSE /\ result'.status = "error"
                      /\ result'.kind = "UnexpectedEof"
                      /\ result'.col = column
                      /\ result'.row = row]_vars

\* C12 witness: `a,b\n1, ` ended in column 1 of row 1 and read failed with
\* UnexpectedEof there
C12_Witness ==
    /\ Failed("UnexpectedEof")
    /\ Input = InRowEof
    /\ result.col = 1
    /\ result.row = 1

\* C13: when a value has been stored in the last column and the next unread
\* character is neither a line separator nor the end of the stream, read
\* fails with ExpectedLineSeparator at that row and column, also when the
\* character is a value separator.
C13_ExpectedLineSeparator ==
    [][(NumericDataCell /\ column + 1 = Len(columns)
          /\ CellEndsAtValueSeparator)
         => /\ pc' = "done"
            /\ result'.status = "error"
            /\ result'.kind = "ExpectedLineSeparator"
            /\ result'.row = row
            /\ result'.col = column
            /\ columns'[column + 1].data # columns[column + 1].data]_vars

\* C13 witness: `a,b\n1,2,3\n` failed with ExpectedLineSeparator at row 1,
\* column 1, the value separator after `2` being the next character
C13_Witness ==
    /\ Failed("ExpectedLineSeparator")
    /\ Input = InLongRow
    /\ result.row = 1
    /\ result.col = 1
    /\ result.peek = ","

\* the table differs from what it was before the step at most by one value
\* added at the end of the current column
AtMostCurrentValueAppended ==
    /\ Len(columns') = Len(columns)
    /\ \A i \in DOMAIN columns :
          /\ columns'[i].name = columns[i].name
          /\ \/ columns'[i].data = columns[i].data
             \/ /\ i = column + 1
                /\ Len(columns'[i].data) = Len(columns[i].data) + 1
                /\ SubSeq(columns'[i].data, 1, Len(columns[i].data))
                      = columns[i].data

\* C14: failure is immediate and terminal for the call.  When read has
\* failed, the stream stands where the error was found: where it stood at
\* the call (entry guards), within or at the delimiter of the cell scanned
\* last, or at the end of the input; nothing behind that point has been
\* consumed.  The step that returns the error adds no column and no value
\* other than that of the cell whose delimiter is at fault, and after the
\* return the stream, the table and the error do not change any more.
C14_FailureTerminal ==
    /\ []((pc = "done" /\ result.status = "error")
            => \/ cell_start = 0 /\ stream.pos = stream0.pos
               \/ cell_start > 0 /\ stream.pos <= CellEnd(cell_start)
               \/ result.kind = "UnexpectedEof" /\ stream.pos > Len(Input))
    /\ [][(result.status # "error" /\ result'.status = "error")
            => /\ pc' = "done"
               /\ \/ columns' = columns
                  \/ /\ result'.kind \in {"UnexpectedLineSeparator",
                                          "ExpectedLineSeparator",
                                          "ExpectedValueSeparator"}
                     /\ AtMostCurrentValueAppended]_vars
    /\ [][(pc = "done" /\ result.status = "error")
            => UNCHANGED <<stream, columns, result, pc>>]_vars

\* C14 witness: `a,b\n1,2,3\n` failed at the value separator after `2`; the
\* stream still stands there with `,3\n` unread and the table holds 1 and 2
\* after two calls of write
C14_Witness ==
    /\ Failed("ExpectedLineSeparator")
    /\ Input = InLongRow
    /\ stream.pos = 8
    /\ Len(written) = MaxWrites
    /\ columns = <<Column(<<"a">>, <<Num(1, 0)>>),
                   Column(<<"b">>, <<Num(2, 0)>>)>>

\* enum class ErrorCase
ErrorCases ==
    {"BadStream", "UnexpectedEof", "ErrorParsingFloat", "CellOutOfRange",
     "UnexpectedLineSeparator", "ExpectedLineSeparator",
     "ExpectedValueSeparator", "CellTooLong"}

\* a call of read that has begun and not returned is at a place from which
\* it goes on: at the head of a loop, within the scan of a cell, or after it
CanStep ==
    /\ pc \in {"read_with_header", "read_without_header", "data"}
    /\ scan \in {"idle", "read_cell", "cell", "nullopt"}

\* what one step of a call achieves: it returns, or leaves the first-row
\* loop, or starts the scan of a cell, or stores one more character in the
\* bounded buffer, or ends the scan, or finishes the loop iteration having
\* consumed a character or found the end of the stream
Progress ==
    \/ pc' = "done"
    \/ scan = "idle" /\ pc # "data" /\ pc' = "data"
    \/ scan = "idle" /\ scan' = "read_cell"
    \/ /\ scan = "read_cell" /\ scan' = "read_cell"
       /\ Len(buffer') = Len(buffer) + 1
       /\ Len(buffer') <= BufferSize
    \/ scan = "read_cell" /\ scan' \in {"cell", "nullopt"}
    \/ /\ scan \in {"cell", "nullopt"} /\ scan' = "idle"
       /\ stream'.pos > stream.pos \/ stream'.eofbit

\* C15: for every input and every settings value read ends by returning
\* success or a ReadError whose kind is one of the eight declared kinds: a
\* call that has not returned goes on, every step it takes brings it
\* nearer to its return (over an input of finite length), and a call that
\* has returned has one of these outcomes.
C15_ClosedOutcomes ==
    /\ [](pc \notin {"idle", "done"} => CanStep)
    /\ [][pc \notin {"idle", "done"} => Progress]_vars
    /\ [](pc = "done"
            => \/ result.status = "ok"
               \/ result.status = "error" /\ result.kind \in ErrorCases)

\* C15 witness: the malformed input ` +1\n2\n` ended with ErrorParsingFloat
\* in the first cell
C15_Witness ==
    /\ Failed("ErrorParsingFloat")
    /\ Input = InPlus
    /\ result.row = 0
    /\ result.col = 0

\* a and b are numerically equal doubles (-0 equals 0)
NumEq(a, b) ==
    /\ a.mant = b.mant
    /\ a.frac = b.frac
    /\ a.neg = b.neg \/ a.mant = 0

\* the tables s and t have equally many columns, with identical names in
\* the same order and numerically equal data
SameTable(s, t) ==
    /\ Len(s) = Len(t)
    /\ \A i \in DOMAIN s :
          /\ s[i].name = t[i].name
          /\ Len(s[i].data) = Len(t[i].data)
          /\ \A k \in DOMAIN s[i].data : NumEq(s[i].data[k], t[i].data[k])

\* C16 (as claimed): round trip.  Reading the text that write produced from
\* a successfully read table, with the same settings, succeeds and yields
\* the same table: as many columns, the same names in the same order,
\* numerically equal data.
C16_RoundTrip ==
    (reread /\ pc = "done") => Succeeded /\ SameTable(columns, table0)

\* the pieces of the text w that the character c ends (the last piece may
\* be ended by the end of the text)
RECURSIVE SplitAt(_, _)
SplitAt(w, c) ==
    IF w = <<>> THEN <<>>
    ELSE LET e == Min({i \in 1..Len(w) : w[i] = c} \cup {Len(w) + 1})
         IN <<SubSeq(w, 1, e - 1)>> \o SplitAt(SubSeq(w, e + 1, Len(w)), c)

\* the lines of a written text, and the cells of a written data line
LinesOf(w) == SplitAt(w, settings.line_separators[1])
CellsOf(line) ==
    SplitAt(Append(line, settings.value_separators[1]),
            settings.value_separators[1])

\* the table is the one that the texts in written were written from
TableWritten == written # <<>> /\ ~reread

\* smallest number of values in a column of the table
MinDataLength == Min({Len(columns[i].data) : i \in DOMAIN columns})

C18_WriteMinRows ==
    TableWritten =>
        \A k \in DOMAIN written :
            LET lines == LinesOf(written[k])
            IN IF columns = <<>> THEN written[k] = <<>>
               ELSE /\ Len(lines) - MinDataLength \in {0, 1}
                    /\ \A r \in 1..MinDataLength :
                          LET cells ==
                                CellsOf(lines[Len(lines) - MinDataLength + r])
                          IN /\ Len(cells) = Len(columns)
                             /\ \A i \in DOMAIN columns :
                                   cells[i] = format_double(columns[i].data[r])

\* C18 witness: `1, 2, 3\n4, 5\n` without a header left columns of 2, 2 and
\* 1 values; write emitted the one row 1,2,3
C18_Witness ==
    /\ TableWritten
    /\ Input = InShortRow
    /\ header_type = "None"
    /\ Len(columns[1].data) = 2
    /\ Len(columns[3].data) = 1
    /\ written[1] = <<"1", ",", "2", ",", "3", NL>>

\* a header row was written in the k-th text
HeaderWritten(k) == Len(LinesOf(written[k])) = MinDataLength + 1

\* C19: for a table that is not empty, write with header_type Auto emits a
\* header row if and only if at least one column has a non-empty name;
\* with FirstRow it always emits one, with None never.
C19_WriteHeaderType ==
    (TableWritten /\ columns # <<>>) =>
        \A k \in DOMAIN written :
            HeaderWritten(k) <=>
                CASE settings.header_type = "FirstRow" -> TRUE
                  [] settings.header_type = "None" -> FALSE
                  [] settings.header_type = "Auto" ->
                        \E i \in DOMAIN columns : columns[i].name # <<>>

\* C19 witness: the headerless table of `\n -1,2\n-3,4\n`, read and written
\* with Auto, was written without a header row
C19_Witness ==
    /\ TableWritten
    /\ settings.header_type = "Auto"
    /\ Input = InMinus
    /\ Succeeded
    /\ ~HeaderWritten(1)
    /\ Len(LinesOf(written[1])) = 2

\* the header cell the claim describes for the i-th column
RECURSIVE Decimal(_)
Decimal(n) ==
    IF n < 10 THEN <<DigitChar[n]>>
    ELSE Append(Decimal(n \div 10), DigitChar[n % 10])

ClaimedHeaderCell(i) ==
    LET q == <<settings.quotes[1]>>
    IN IF columns[i].name = <<>> THEN q \o Decimal(i - 1) \o q
       ELSE IF settings.auto_quotes THEN q \o columns[i].name \o q
       ELSE columns[i].name

RECURSIVE JoinFrom(_, _)
JoinFrom(cells, i) ==
    IF i > Len(cells) THEN <<>>
    ELSE IF i = Len(cells) THEN cells[i]
    ELSE cells[i] \o <<settings.value_separators[1]>> \o JoinFrom(cells, i + 1)

\* C20: in a written header row a column with an empty name appears as its
\* zero-based index within one pair of the first quote character, whatever
\* auto_quotes is; a column with a name appears as the name, within a pair
\* of the first quote character if and only if auto_quotes is set.
C20_WriteHeaderCells ==
    (TableWritten /\ columns # <<>>) =>
        \A k \in DOMAIN written :
            HeaderWritten(k) =>
                LinesOf(written[k])[1]
                    = JoinFrom([i \in DOMAIN columns |-> ClaimedHeaderCell(i)], 1)

\* C20 witness: the header `,a` read with FirstRow and written without
\* auto_quotes gave the header row "0",a
C20_Witness ==
    /\ TableWritten
    /\ ~settings.auto_quotes
    /\ Len(columns) = 2
    /\ columns[1].name = <<>>
    /\ columns[2].name = <<"a">>
    /\ LinesOf(written[1])[1] = <<QT, "0", QT, ",", "a">>

\* the character the stream holds at its read position
Unread == stream.buf[stream.pos]

\* the scan of a cell is at a character of the input
ScanAtCharacter ==
    /\ scan = "read_cell"
    /\ good(stream)
    /\ ~buffer_full(buffer)
    /\ stream.pos <= Len(stream.buf)

\* the scan of the cell ends in this step, in front of the character
ScanEndsHere ==
    /\ scan' = "cell"
    /\ stream'.pos = stream.pos
    /\ buffer' = buffer

\* the table of the rows 1 2 3 and 4 5 6, without names
MixedTable ==
    <<Column(<<>>, <<Num(1, 0), Num(4, 0)>>),
      Column(<<>>, <<Num(2, 0), Num(5, 0)>>),
      Column(<<>>, <<Num(3, 0), Num(6, 0)>>)>>

MixedSettings ==
    /\ value_separators(settings) = <<"|", ";", ",">>
    /\ line_separators(settings) = <<"/", NL>>
    /\ settings.header_type # "FirstRow"

\* C21: each set of separators is a set of alternatives.  On reading every
\* character of the value separator set ends a cell (outside quotes) and
\* every character of the line separator set ends a cell and its row, in
\* any mixture: with the sets |;, and /\n the input 1|2;3/4,5|6\n is the
\* table of the columns 1 4, 2 5 and 3 6.  On writing only the first
\* character of each set is sent: a text written without a header row
\* holds no other character of the two sets.
C21_SeparatorAlternatives ==
    /\ [][(/\ ScanAtCharacter
            /\ \/ Unread \in Range(line_separators(settings))
               \/ /\ Unread \in Range(value_separators(settings))
                  /\ ~is_in_quote)
            => ScanEndsHere]_vars
    /\ [](pc = "done" /\ Input = InMixedSeparators /\ MixedSettings
            => Succeeded /\ columns = MixedTable)
    /\ [](settings.header_type = "None"
            => \A k \in DOMAIN written : \A i \in DOMAIN written[k] :
                  written[k][i] \in ValueSeparatorSet \cup LineSeparatorSet
                    => written[k][i] \in {settings.value_separators[1],
                                          settings.line_separators[1]})

\* C21 witness: 1|2;3/4,5|6\n was read with the sets |;, and /\n and the
\* table was written as 1|2|3/4|5|6/
C21_Witness ==
    /\ Succeeded
    /\ Input = InMixedSeparators
    /\ MixedSettings
    /\ columns = MixedTable
    /\ written # <<>>
    /\ written[1] = <<"1", "|", "2", "|", "3", "/", "4", "|", "5", "|", "6", "/">>

\* this step is a call of a separator setter
SetterCalled == set_calls'.count = set_calls.count + 1

\* the table of 1,2;3\n
OneRowTable ==
    <<Column(<<>>, <<Num(1, 0)>>), Column(<<>>, <<Num(2, 0)>>),
      Column(<<>>, <<Num(3, 0)>>)>>

\* C22: a separator setter called with an empty argument changes nothing:
\* the settings after the call are the settings before it, and a read that
\* follows separates as before (1,2;3\n still is a row of three cells under
\* the default sets).
C22_EmptySetterNoOp ==
    /\ [][SetterCalled /\ set_calls'.arg = <<>> => settings' = settings]_vars
    /\ [](/\ pc = "done" /\ Input = InCommaSemicolon
          /\ set_calls.count > 0
          /\ set_calls.value = NoCalls.value
          /\ set_calls.line = NoCalls.line
          /\ settings.header_type # "FirstRow"
          => Succeeded /\ columns = OneRowTable)

\* C22 witness: two setter calls, the last one of set_line_separators, had
\* empty arguments and 1,2;3\n was read under the default sets
C22_Witness ==
    /\ set_calls = Called(Called(NoCalls, "value", <<>>), "line", <<>>)
    /\ value_separators(settings) = <<",", ";", "\t">>
    /\ line_separators(settings) = <<NL>>
    /\ Succeeded
    /\ Input = InCommaSemicolon
    /\ columns = OneRowTable

\* C23: the separators of the parser are the members of the most recently
\* accepted non-empty sets (cut to the capacity), and no other character:
\* outside quotes the scan of a cell ends in front of a character exactly
\* if the character is a member of the accepted value separator set or of
\* the accepted line separator set.
C23_CurrentSetOnly ==
    [][ScanAtCharacter /\ ~is_in_quote /\ Unread \notin QuoteSet
        => (ScanEndsHere
              <=> Unread \in Range(set_calls.value)
                              \cup Range(set_calls.line))]_vars

\* C24: after a setter was called with a non-empty argument s its accessor
\* returns s when s fits the capacity and the first SepCapacity characters
\* of s otherwise; this holds for a shorter set that follows a longer one.
C24_AccessorReturnsSet ==
    [][SetterCalled /\ set_calls'.arg # <<>>
        => IF set_calls'.fn = "value"
             THEN value_separators(settings') = Truncated(set_calls'.arg)
             ELSE line_separators(settings') = Truncated(set_calls'.arg)]_vars

\* C24 witness: the value separators were set to nine characters and then
\* to | alone, and the accessor returns | alone
C24_Witness ==
    /\ set_calls =
         Called(Called(NoCalls, "value", LongValueSeparators), "value", <<"|">>)
    /\ value_separators(settings) = <<"|">>

\* C25: read and write never modify the settings: every step of a read
\* call (the resolution of Auto for the call included) and every write
\* call leaves header_type, the separator sets, the quote set and
\* auto_quotes as they were; only the setters change them.
C25_SettingsUnchanged ==
    [][~SetterCalled => settings' = settings]_vars

\* C25 witness: a read resolved Auto to FirstRow, the table was written,
\* and the settings still say Auto
C25_Witness ==
    /\ Succeeded
    /\ header_type = "FirstRow"
    /\ written # <<>>
    /\ settings.header_type = "Auto"

\* C26: a stream that is flagged unusable (bad) before any character is
\* read, and that is not at its end, makes read fail with BadStream at row
\* 0, column 0, nothing being consumed; it is never reported with another
\* kind or as success.
C26_BadStream ==
    pc = "done" /\ stream0.badbit /\ ~stream0.eofbit
        => /\ Failed("BadStream")
           /\ result.row = 0
           /\ result.col = 0
           /\ stream = stream0

\* C26 witness: a bad stream holding a\n1\n was refused with BadStream
C26_Witness ==
    /\ Failed("BadStream")
    /\ stream0.badbit /\ ~stream0.eofbit /\ ~stream0.failbit
    /\ Input = <<"a", NL, "1", NL>>
    /\ stream.pos = 1

\* the characters that the accessors report as configured separators
ConfiguredSeparators ==
    Range(value_separators(settings)) \cup Range(line_separators(settings))

\* C27: in the scan of a cell a line separator always ends the token, also
\* inside a quoted region (quoting suppresses the break at a value
\* separator only), so that no token holds a line separator: an
\* unterminated quote does not carry a cell over the end of its line.
C27_LineSeparatorEndsToken ==
    /\ [][ScanAtCharacter /\ Unread \in Range(line_separators(settings))
            => ScanEndsHere]_vars
    /\ [](\A i \in DOMAIN buffer :
            buffer[i] \notin Range(line_separators(settings)))

\* C27 witness: the scan of the cell "a with an unterminated quote ended
\* in front of the line separator, still inside the quoted region
C27_Witness ==
    /\ scan = "cell"
    /\ is_in_quote
    /\ buffer = <<QT, "a">>
    /\ stream.pos <= Len(stream.buf)
    /\ Unread = NL

\* C28: read_cell does not consume the delimiter that ends the token: when
\* a scan has returned a token the next unread character is a configured
\* value separator or a configured line separator, or the stream is at its
\* end, and the characters in front of it are the token.
C28_DelimiterNotConsumed ==
    scan = "cell" /\ good(stream0)
        => /\ \/ stream.eofbit
              \/ /\ stream.pos <= Len(stream.buf)
                 /\ Unread \in ConfiguredSeparators
           /\ SubSeq(buffer, 1, stream.pos - cell_start)
                = SubSeq(Input, cell_start, stream.pos - 1)

\* C29: a scan that reaches the end of the stream returns, as its token,
\* the characters read before the end of the input and nothing more; the
\* header a,b without a line separator gives the last column the name b.
C29_TokenAtEndOfStream ==
    /\ scan = "cell" /\ good(stream0) /\ stream.eofbit
         => buffer = SubSeq(Input, cell_start, Len(Input))
    /\ pc = "done" /\ Input = InHeaderEof /\ header_type = "FirstRow"
         => Len(columns) = 2 /\ columns[2].name = <<"b">>

\* number of cells of the row of the input that starts at position p
RECURSIVE CellsFrom(_)
CellsFrom(p) ==
    IF CellEnd(p) > Len(Input) \/ Input[CellEnd(p)] \in LineSeparatorSet
      THEN 1
      ELSE 1 + CellsFrom(CellEnd(p) + 1)

\* number of cells of the first row that is read
FirstRowCells ==
    CellsFrom(IF settings.header_type = "Auto" THEN FirstNonWhitespace ELSE 1)

\* C30: without a header row (None, or Auto resolved to None) every cell of
\* the first row that is a number appends one column with an empty name and
\* that number as its only value, and every cell that is not a number makes
\* read fail with ErrorParsingFloat at row 0 and the index of the cell;
\* when the first row has been read there are as many columns as the row
\* has cells.
C30_HeaderlessFirstRow ==
    /\ [][(pc = "read_without_header" /\ scan = "cell")
            => IF WholeNumber(DataCellText)
                 THEN /\ pc' # "done"
                      /\ columns' =
                           Append(columns,
                                  Column(<<>>, <<from_chars(DataCellText).value>>))
                 ELSE /\ pc' = "done"
                      /\ result'.status = "error"
                      /\ result'.kind = "ErrorParsingFloat"
                      /\ result'.row = 0
                      /\ result'.col = Len(columns)]_vars
    /\ [](pc = "data" /\ header_type = "None" /\ good(stream0)
            => Len(columns) = FirstRowCells)

\* number of values that the columns of the table cols hold together
RECURSIVE TotalValues(_)
TotalValues(cols) ==
    IF cols = <<>> THEN 0
    ELSE Len(cols[1].data) + TotalValues(Tail(cols))

\* the kinds that are returned after the value of the cell was stored
KindsAfterStore ==
    {"UnexpectedLineSeparator", "ExpectedLineSeparator",
     "ExpectedValueSeparator"}

\* this step returns an error
ErrorReturned == result.status # "error" /\ result'.status = "error"

\* C31: every ReadError carries the zero-based column and row of the cell
\* that was being processed.  The entry guards report row 0, column 0; the
\* header phase and the headerless first row report row 0 and the number of
\* cells completed in that row (the number of columns made so far); the
\* data loop reports the number of completed rows, the header row
\* included, and the number of cells completed in the current row, both
\* counted from the values that the table holds.
C31_ErrorLocation ==
    [][ErrorReturned
        => IF pc \in {"idle", "done"}
             THEN result'.row = 0 /\ result'.col = 0
           ELSE IF pc \in {"read_with_header", "read_without_header"}
             THEN result'.row = 0 /\ result'.col = Len(columns)
           ELSE
             LET n == TotalValues(columns')
                        - (IF result'.kind \in KindsAfterStore THEN 1 ELSE 0)
                 h == IF header_type = "FirstRow" THEN 1 ELSE 0
             IN /\ Len(columns) > 0
                /\ result'.col = n % Len(columns)
                /\ result'.row = h + (n \div Len(columns))]_vars

\* C31 witness: a,b\n1,2\n3,a\n failed in the second cell of the third row,
\* with ErrorParsingFloat at row 2, column 1
C31_Witness ==
    /\ Failed("ErrorParsingFloat")
    /\ Input = InThirdRowError
    /\ header_type = "FirstRow"
    /\ result.row = 2
    /\ result.col = 1

\* the expected set of an error: the characters of its array in front of
\* the first '\0', as ReadError::print lists them
ExpectedSet == SubSeq(result.expected, 1, view_len(result.expected, 1))

InDataLoop == pc = "data" /\ (scan # "idle" \/ ~stream.eofbit)

\* C33: at every point of the data loop the column index is at least 0 and
\* less than the number of columns, so that the value of a cell always has
\* a column to go to and the index never reaches the number of columns.
C33_ColumnInRange ==
    InDataLoop => 0 <= column /\ column < Len(columns)

\* C33 witness: the data loop has scanned the cell of the second of three
\* columns
C33_Witness ==
    /\ InDataLoop
    /\ scan = "cell"
    /\ column = 1
    /\ Len(columns) = 3

\* the columns in front of place k hold n + 1 values, the others n
PrefixState(n, k) ==
    \A i \in DOMAIN columns :
        Len(columns[i].data) = n + (IF i < k THEN 1 ELSE 0)

\* C34: while read is in progress and after a read that failed in the data
\* loop the table is in a prefix state: with r the number of completed
\* data rows and c the column index, the columns with an index below c
\* (up to c once the value of the current cell is stored) hold r + 1 values
\* and the others r; the data lengths of two columns differ by at most one
\* and do not grow with the column index.
C34_PrefixState ==
    /\ \A i, j \in DOMAIN columns :
          i < j => Len(columns[i].data) - Len(columns[j].data) \in {0, 1}
    /\ pc = "data" => PrefixState(DataRowsRead, column + 1)
    /\ pc = "done" /\ result.status = "error" /\ result.row > 0
         => PrefixState(IF header_type = "FirstRow"
                          THEN result.row - 1 ELSE result.row,
                        IF result.kind \in KindsAfterStore
                          THEN result.col + 2 ELSE result.col + 1)

\* C34 witness: a,b,a\n1,2 failed at the end of the stream after two of
\* three cells; the first two columns hold one value, the third none
C34_Witness ==
    /\ Failed("UnexpectedLineSeparator")
    /\ Input = InShortRowEof
    /\ Len(columns) = 3
    /\ Len(columns[1].data) = 1
    /\ Len(columns[2].data) = 1
    /\ Len(columns[3].data) = 0

\* what a call of read has left to do, as three numbers: the loops it has
\* not left, the characters (and the end) the stream has not delivered, and
\* the room of the current loop iteration, in which the scan of a cell can
\* store BufferSize characters at most
Rank(p, s, sc, b) ==
    <<IF p \in {"read_with_header", "read_without_header"} THEN 2
      ELSE IF p = "data" THEN 1 ELSE 0,
      IF s.eofbit THEN 0 ELSE Len(s.buf) + 2 - s.pos,
      IF sc = "read_cell" THEN BufferSize + 2 - Len(b)
      ELSE IF sc \in {"cell", "nullopt"} THEN 1
      ELSE IF s.eofbit THEN 0 ELSE BufferSize + 3>>

\* the lexicographic order of such triples
RankLess(x, y) ==
    \/ x[1] < y[1]
    \/ x[1] = y[1] /\ x[2] < y[2]
    \/ x[1] = y[1] /\ x[2] = y[2] /\ x[3] < y[3]

\* C35: read terminates for every finite input and every flag state of the
\* stream, also a stream that has failed without being at its end or bad.
\* Every step of the header loop, the first-row loop, the data loop and the
\* scan of a cell consumes a character (or finds the end of the stream),
\* stores one more character in the bounded buffer, or leaves its loop:
\* the rank of the call, a triple of natural numbers, goes down with every
\* step, so that there are only finitely many.
C35_ReadTerminates ==
    /\ [][pc \notin {"idle", "done"}
            => RankLess(Rank(pc', stream', scan', buffer'),
                        Rank(pc, stream, scan, buffer))]_vars
    /\ [](\A i \in 1..3 : Rank(pc, stream, scan, buffer)[i] >= 0)

\* C35 witness: a stream with failbit alone delivered no character; the
\* scan filled the buffer and read returned CellTooLong
C35_Witness ==
    /\ Failed("CellTooLong")
    /\ stream0.failbit /\ ~stream0.eofbit /\ ~stream0.badbit
    /\ Len(buffer) = BufferSize
    /\ stream.pos = stream0.pos

\* the data loop is at its test for a value separator: the cell converts,
\* the row does not end here and has columns left
AtValueSeparatorCheck ==
    /\ pc = "data" /\ scan = "cell"
    /\ from_chars(trim_whitespaces(buffer)).ok
    /\ ~stream.eofbit
    /\ stream.pos <= Len(stream.buf)
    /\ Unread \notin LineSeparatorSet
    /\ column + 1 < Len(columns)

C37_WhitespaceBeforeEveryCell ==
    /\ pc = "data" /\ scan # "idle" /\ good(stream0)
         => cell_start <= Len(Input) /\ Input[cell_start] \notin whitespaces
    /\ pc = "done" /\ Input = InBlankLines /\ header_type = "FirstRow"
         => /\ Succeeded
            /\ columns = <<Column(<<"a">>, <<Num(1, 0), Num(2, 0)>>)>>
            /\ row = 3
    /\ pc = "done" /\ Input = InContinued /\ header_type = "FirstRow"
         => /\ Succeeded
            /\ columns = <<Column(<<"a">>, <<Num(1, 0)>>),
                           Column(<<"b">>, <<Num(2, 0)>>)>>
            /\ row = 2

\* C37 witness: in a,b\n1,\n2\n the cell 2 of the second line was scanned
\* as the cell of column 1 of row 1
C37_Witness ==
    /\ pc = "data" /\ scan = "cell"
    /\ Input = InContinued
    /\ buffer = <<"2">>
    /\ cell_start = 8
    /\ column = 1
    /\ row = 1

\* C38: the flag of the quoted region belongs to one scan.  Every scan
\* starts outside a quoted region, and where a scan ends depends on the
\* quote characters of its own cell only (it ends at CellEnd, which counts
\* the quote characters from the start of the cell); a,"b\n1,2\n, whose
\* second header cell has an unterminated quote, still has the row 1,2
\* separated into two cells.
C38_QuoteFlagLocal ==
    /\ scan = "read_cell" /\ buffer = <<>> => ~is_in_quote
    /\ scan = "cell" /\ good(stream0) => stream.pos = CellEnd(cell_start)
    /\ pc = "done" /\ Input = InOpenQuote /\ header_type = "FirstRow"
         => /\ Succeeded
            /\ Len(columns) = 2
            /\ columns[1].data = <<Num(1, 0)>>
            /\ columns[2].data = <<Num(2, 0)>>

\* C38 witness: after the header cell "b, whose scan ended inside a quoted
\* region, the scan of the cell 1 of the next row ended in front of the
\* value separator
C38_Witness ==
    /\ Input = InOpenQuote
    /\ pc = "data" /\ scan = "cell"
    /\ buffer = <<"1">>
    /\ ~is_in_quote
    /\ Unread = ","
    /\ Len(columns) = 2

\* number of quote characters in str
QuoteCount(str) == Cardinality({i \in DOMAIN str : str[i] \in QuoteSet})

\* C39: every member of the quote set toggles the flag of the quoted
\* region: during a scan the flag is set exactly if the scan has passed an
\* odd number of quote characters, whichever they are.  A region that "
\* opened is closed by ', so that in "a',b\n1,2\n the value separator
\* after the pair ends the first header cell and the table has two
\* columns.
C39_AnyQuoteToggles ==
    /\ scan \in {"read_cell", "cell"} /\ good(stream0)
         => (is_in_quote <=> QuoteCount(buffer) % 2 = 1)
    /\ pc = "done" /\ Input = InMixedQuotes /\ header_type = "FirstRow"
         => /\ Succeeded
            /\ Len(columns) = 2
            /\ columns[1].name = IF settings.auto_quotes
                                   THEN <<"a">> ELSE <<QT, "a", "'">>
            /\ columns[2].name = <<"b">>

\* C39 witness: the scan of the first header cell of "a',b\n1,2\n passed "
\* and ' and ended outside the quoted region in front of the value separator
C39_Witness ==
    /\ Input = InMixedQuotes
    /\ pc = "read_with_header" /\ scan = "cell"
    /\ buffer = <<QT, "a", "'">>
    /\ ~is_in_quote
    /\ Unread = ","

\* the text of the cell scanned last without surrounding whitespace, and
\* without surrounding quote characters too
TrimmedCell == Strip(CellText(cell_start), whitespaces)
UnquotedCell == Strip(TrimmedCell, QuoteSet)

\* C40: with auto_quotes the surrounding quote characters are trimmed from
\* the header cells (the name is the cell without them) and from the cells
\* of a headerless first row (a quoted number is stored as its number), and
\* never from the cells of the data loop, where a cell that starts with a
\* quote character fails with ErrorParsingFloat.
C40_AutoQuotesScope ==
    [][(settings.auto_quotes /\ scan = "cell" /\ good(stream0))
        => /\ pc = "read_with_header" /\ UnquotedCell # TrimmedCell
                => columns' = Append(columns, Column(UnquotedCell, <<>>))
           /\ pc = "read_without_header" /\ WholeNumber(UnquotedCell)
                => columns' =
                     Append(columns,
                            Column(<<>>, <<from_chars(UnquotedCell).value>>))
           /\ (/\ pc = "data"
               /\ TrimmedCell # <<>>
               /\ TrimmedCell[1] \in QuoteSet)
                => /\ pc' = "done"
                   /\ result'.status = "error"
                   /\ result'.kind = "ErrorParsingFloat"
                   /\ columns' = columns]_vars

=============================================================================
